---- MODULE Spec2Model ----
(***************************************************************************)
(* numio-cpp: the integer codec NumIO::IntIO<INT_T, N_BITS, ALIGNED_V>     *)
(* (src/test/debug.cpp:1293-1500, the revision the tests run against) and  *)
(* the float codec NumIO::FloatIO<FLOAT_T, INT_IO_T, E, F, ALIGNED_V>       *)
(* (debug.cpp:1515-1767), which moves its bits through the integer         *)
(* transport it selects for itself (debug.cpp:1531).                       *)
(*                                                                         *)
(* A value of the container type INT_T is kept as its two's-complement     *)
(* bytes, least significant first (a sequence of CHAR_BIT-bit units, one   *)
(* per container byte): 64-bit containers do not fit a model integer, and  *)
(* every shift the codec performs is by a whole number of bytes.  The byte *)
(* vector std::vector<std::uint8_t> is a sequence of numbers 0..255.       *)
(***************************************************************************)
EXTENDS Integers, Sequences, FiniteSets, TLC

VARIABLES
    fmt,        \* the template arguments of the IntIO instantiation
    sysLittle,  \* __IS_SYSTEM_LITTLE_ENDIAN of the build
    endian,     \* ENDIANNESS_V the caller passes to pack/unpack
    phase,      \* "declared", then "ready" or "rejected" (static_assert)
    bytes,      \* the caller's byte vector
    op,         \* the last call: "none", "load", "pack", "unpack", "fpack",
                \* "funpack", "read", "write"
    pre,        \* the byte vector as it was before the last call
    arg,        \* the value passed to the last pack
    packed,     \* the values passed to pack since the vector was empty
    result,     \* the value returned by the last unpack
    roff,       \* the offset passed to the last unpack
    fval,       \* the FLOAT_T passed to or returned by the last FloatIO call
    thrown,     \* the std::runtime_error the last FloatIO call threw, or "none"
    stream,     \* the unread bytes of the caller's std::stringstream
    nio,        \* bytes the last FloatIO::read took from / write put on the stream
    calls       \* the IntIO calls in progress, one record for each thread

\* the variables of a FloatIO caller
fvars == <<fval, thrown, stream, nio>>

vars == <<fmt, sysLittle, endian, phase, bytes, op, pre, arg, packed, result, roff,
          fval, thrown, stream, nio, calls>>

(***************************************************************************)
(* Bounds of the model.                                                    *)
(***************************************************************************)
\* pack calls on one byte vector before the caller clears it
MaxPacks == 2

(***************************************************************************)
(* Program constants.                                                      *)
(***************************************************************************)
\* bits per byte of the container types (sizeof(INT_T)*8)
CHAR_BITS == 8
\* enum class Endian
LITTLE == 0
BIG == 1

Byte == 0..255

(***************************************************************************)
(* Bit operations of the byte type and of a container value.               *)
(***************************************************************************)
Pow2(k) == 2 ^ k

BitOf(b, k) == (b \div Pow2(k)) % 2

RECURSIVE ByteAndFrom(_, _, _)
ByteAndFrom(a, b, k) ==
    IF k = CHAR_BITS THEN 0
    ELSE BitOf(a, k) * BitOf(b, k) * Pow2(k) + ByteAndFrom(a, b, k + 1)

\* a & b for every pair of bytes, computed once
AndTable == [a \in Byte |-> [b \in Byte |-> ByteAndFrom(a, b, 0)]]

\* a & b on two bytes
ByteAnd(a, b) == AndTable[a][b]

\* a | b on two bytes
ByteOr(a, b) == a + b - ByteAnd(a, b)

\* x & y, x | y, ~x on container values
AndV(x, y) == [j \in 1..Len(x) |-> ByteAnd(x[j], y[j])]
OrV(x, y) == [j \in 1..Len(x) |-> ByteOr(x[j], y[j])]
NotV(x) == [j \in 1..Len(x) |-> 255 - x[j]]

RECURSIVE Zeros(_)
Zeros(n) == IF n <= 0 THEN <<>> ELSE <<0>> \o Zeros(n - 1)

(***************************************************************************)
(* The format descriptor: the template arguments.                          *)
(***************************************************************************)
\* std::numeric_limits<INT_T>::digits, plus the sign bit of a signed INT_T
N_CONTAINER_BITS(f) == f.cbits

\* the assertion off by one bit
StaticAssert_OffByOne(f) == N_CONTAINER_BITS(f) + 1 >= f.nbits

\* static_assert(_N_CONTAINER_BITS >= N_BITS, ...)
StaticAssert(f) == N_CONTAINER_BITS(f) >= f.nbits

\* a conversion to int that drops the fractional part
positive_ceil_Floor(num, den) == num \div den

\* __positive_ceil(f), with f = num / den
positive_ceil(num, den) ==
    LET i == num \div den
    IN  IF i * den # num THEN i + 1 ELSE i

\* __positive_ceil(N_BITS / 8.0)
N_DATA_BYTES(f) == positive_ceil(f.nbits, 8)

\* the variant left as a comment at debug.cpp:1316
N_ALIGN_BYTES_Mod16(f) ==
    IF f.nbits > 8
    THEN IF f.aligned THEN ((N_CONTAINER_BITS(f) - f.nbits) % 16) \div 8 ELSE 0
    ELSE 0

\* _N_ALIGN_BYTES: the padding bytes
N_ALIGN_BYTES(f) ==
    IF f.nbits > 8
    THEN IF f.aligned THEN (N_CONTAINER_BITS(f) - f.nbits) \div 8 ELSE 0
    ELSE 0

N_IO_BYTES(f) == N_DATA_BYTES(f) + N_ALIGN_BYTES(f)

\* sizeof(INT_T)
ContainerBytes(f) == f.cbits \div CHAR_BITS

\* for (int i=0; i<N_BITS; i++) mask |= (static_cast<INT_T>(1) << i):
\* byte j of the mask
RECURSIVE MaskByteFrom(_, _, _)
MaskByteFrom(n, j, i) ==
    IF i >= n THEN 0
    ELSE (IF i \div CHAR_BITS = j THEN Pow2(i % CHAR_BITS) ELSE 0)
         + MaskByteFrom(n, j, i + 1)

\* the loop's result for every N_BITS, computed once
MaskLoop == [n \in 0..64 |-> [j \in 1..8 |-> MaskByteFrom(n, j - 1, 0)]]

\* a mask that isolates nothing
VALUE_MASK_AllOnes(f) == [j \in 1..ContainerBytes(f) |-> 255]

\* _VALUE_MASK: all ones for a full container, else bits 0..N_BITS-1
VALUE_MASK(f) ==
    IF N_CONTAINER_BITS(f) = f.nbits
    THEN [j \in 1..ContainerBytes(f) |-> 255]
    ELSE SubSeq(MaskLoop[f.nbits], 1, ContainerBytes(f))

\* the offset of the float codec of numio.hpp:326-331, which has no padding
get_endianness_offset_NoAlign(f, sl, e) ==
    IF (e = BIG) # (~sl) THEN N_DATA_BYTES(f) - 1 ELSE 0

\* _get_endianness_offset(endianness)
get_endianness_offset(f, sl, e) ==
    IF (e = BIG) # (~sl) THEN N_IO_BYTES(f) - 1 ELSE 0

(***************************************************************************)
(* IntIO::unpack (debug.cpp:1365-1402).                                    *)
(***************************************************************************)
\* a copy loop that forgets the reversed order
ReadIndexStraight(eo, i, offset) == i + offset

\* index (from 0) of the vector element read in iteration i
ReadIndex(eo, i, offset) == IF eo # 0 THEN eo - i + offset ELSE i + offset

\* res | (static_cast<INT_T>(b) << (i * 8)): the byte, moved up i bytes,
\* meets container byte i only (and nothing when shifted out of INT_T)
OrShifted(res, b, i) ==
    IF i + 1 <= Len(res) THEN [res EXCEPT ![i + 1] = ByteOr(@, b)] ELSE res

\* for (short i=0; i<_N_DATA_BYTES; i++) result |= INT_T(bytes[..]) << (i*8)
RECURSIVE UnpackLoop(_, _, _, _, _, _)
UnpackLoop(f, bs, eo, offset, i, res) ==
    IF i >= N_DATA_BYTES(f) THEN res
    ELSE UnpackLoop(f, bs, eo, offset, i + 1,
            OrShifted(res, bs[ReadIndex(eo, i, offset) + 1], i))

\* the sign byte taken as the last data byte in either order
SignByteIndex_LastData(f, eo) == N_DATA_BYTES(f) - 1

\* MSB: index in the window of the byte that holds the sign bit
SignByteIndex(f, eo) == IF eo # 0 THEN N_ALIGN_BYTES(f) ELSE N_DATA_BYTES(f) - 1

\* the sign bit taken as the top bit of its byte
SIGN_BIT_MASK_TopBit(f) == Pow2(7)

\* SIGN_BIT_MASK = (1 << ((N_BITS % 8) + 7) % 8)
SIGN_BIT_MASK(f) == Pow2(((f.nbits % 8) + 7) % 8)

\* the mask and sign extension applied when N_BITS != _N_CONTAINER_BITS
SignExtend(f, bs, eo, offset, res) ==
    IF f.signed /\ ByteAnd(bs[SignByteIndex(f, eo) + offset + 1], SIGN_BIT_MASK(f)) # 0
    THEN OrV(res, NotV(VALUE_MASK(f)))
    ELSE res

\* unpack without result &= _VALUE_MASK
unpack_NoMask(f, sl, e, bs, offset) ==
    LET eo  == get_endianness_offset(f, sl, e)
        raw == UnpackLoop(f, bs, eo, offset, 0, Zeros(ContainerBytes(f)))
    IN  IF f.nbits # N_CONTAINER_BITS(f)
        THEN SignExtend(f, bs, eo, offset, raw)
        ELSE raw

unpack(f, sl, e, bs, offset) ==
    LET eo  == get_endianness_offset(f, sl, e)
        raw == UnpackLoop(f, bs, eo, offset, 0, Zeros(ContainerBytes(f)))
    IN  IF f.nbits # N_CONTAINER_BITS(f)
        THEN SignExtend(f, bs, eo, offset, AndV(raw, VALUE_MASK(f)))
        ELSE raw

(***************************************************************************)
(* IntIO::pack (debug.cpp:1427-1452).                                      *)
(***************************************************************************)
\* (value >> (i * 8)) & 0xFF
ByteAt(value, i) == value[i + 1]

\* index (from 0) of the vector element written in iteration i
WriteIndex(eo, i, offset) == IF eo # 0 THEN eo - i ELSE i

\* the copy loop: _N_DATA_BYTES iterations in reversed order, else N_IO_BYTES
RECURSIVE PackLoop(_, _, _, _, _, _, _)
PackLoop(f, value, eo, offset, n, i, bs) ==
    IF i >= n THEN bs
    ELSE PackLoop(f, value, eo, offset, n, i + 1,
            [bs EXCEPT ![WriteIndex(eo, i, offset) + 1] = ByteAt(value, i)])

pack(f, sl, e, value, bs) ==
    LET offset  == Len(bs)
        resized == bs \o Zeros(N_IO_BYTES(f))
        masked  == AndV(value, VALUE_MASK(f))
        eo      == get_endianness_offset(f, sl, e)
        n       == IF eo # 0 THEN N_DATA_BYTES(f) ELSE N_IO_BYTES(f)
    IN  PackLoop(f, masked, eo, offset, n, 0, resized)

(***************************************************************************)
(* Inputs.  A test vector is eight bytes, least significant first; the     *)
(* first four are byte images used by the tests of debug.cpp:130-547.      *)
(***************************************************************************)
Vectors ==
    { <<255, 255, 127, 0, 0, 0, 0, 0>>,          \* FF FF 7F 00: 8388607
      <<255, 255, 255, 0, 0, 0, 0, 128>>,        \* FF FF FF 00: -1 in 24 bits
      <<255, 31, 0, 0, 0, 0, 0, 0>>,             \* FF 1F 00 00: -1 in 13 bits
      <<43, 240, 127, 66, 165, 60, 129, 90>>,    \* 2B F0 7F 42: garbage above
      <<212, 15, 128, 189, 90, 195, 126, 165>>,  \* the complement of it
      <<0, 224, 255, 255, 255, 255, 255, 255>> } \* garbage above 13 bits

MixedVector == <<43, 240, 127, 66, 165, 60, 129, 90>>
GarbageVector == <<212, 15, 128, 189, 90, 195, 126, 165>>

\* bit k of a little-endian byte sequence
BitV(x, k) == BitOf(x[(k \div CHAR_BITS) + 1], k % CHAR_BITS)

\* Byte j (from 1) of the sequence that has the low n bits of x and the
\* bit `fill` in every higher position.
ExtendByte(x, n, fill, j) ==
    IF CHAR_BITS * j <= n THEN x[j]
    ELSE IF CHAR_BITS * (j - 1) >= n THEN 255 * fill
    ELSE LET r == n - CHAR_BITS * (j - 1)
         IN  (x[j] % Pow2(r)) + fill * (256 - Pow2(r))

\* The container value of the N_BITS-bit integer whose bits are the low
\* N_BITS bits of x: sign-extended (signed INT_T) or zero-extended.
InRange(f, x) ==
    LET fill == IF f.signed THEN BitV(x, f.nbits - 1) ELSE 0
    IN  [j \in 1..ContainerBytes(f) |-> ExtendByte(x, f.nbits, fill, j)]

\* v is representable in N_BITS bits: -2^(N-1) <= v <= 2^(N-1)-1 for a
\* signed INT_T, 0 <= v <= 2^N-1 for an unsigned one
Representable(f, v) == v = InRange(f, v)

\* the most negative N_BITS-bit pattern: bit N_BITS-1 alone
MinPattern(f) == [j \in 1..8 |-> IF (f.nbits - 1) \div CHAR_BITS = j - 1
                                 THEN Pow2((f.nbits - 1) % CHAR_BITS) ELSE 0]

\* the values handed to pack: two representable ones, and one container
\* value that is not (pack masks it)
Values(f) ==
    { InRange(f, x) : x \in {MixedVector, MinPattern(f)} }
    \cup { SubSeq(GarbageVector, 1, ContainerBytes(f)) }

RECURSIVE Reverse(_)
Reverse(s) == IF s = <<>> THEN <<>> ELSE Reverse(Tail(s)) \o <<Head(s)>>

\* The N_IO_BYTES bytes a stream holds for test vector x in byte order e:
\* least significant byte first for LITTLE, last for BIG.
Window(f, e, x) ==
    LET w == SubSeq(x, 1, N_IO_BYTES(f))
    IN  IF e = BIG THEN Reverse(w) ELSE w

(***************************************************************************)
(* The instantiations.                                                     *)
(***************************************************************************)
ContainerWidths == {8, 16, 32, 64}

\* IntIO<INT_T, N_BITS, ALIGNED_V>, N_BITS up to one more than INT_T holds
IntFormats ==
    { [kind |-> "int", cbits |-> c, nbits |-> n, signed |-> s, aligned |-> a,
       ebits |-> 0, fbits |-> 0] :
        c \in ContainerWidths, n \in 1..65, s \in BOOLEAN, a \in BOOLEAN }

\* _INTIO_TYPE = IntIO<INT_IO_T, (1+N_BITS_EXPONENT+N_BITS_FRACTION), ALIGNED_V>
INTIO_TYPE(c, s, eb, fb, a) ==
    [kind |-> "float", cbits |-> c, nbits |-> 1 + eb + fb, signed |-> s,
     aligned |-> a, ebits |-> eb, fbits |-> fb]

\* FloatIO<FLOAT_T, INT_IO_T, N_BITS_EXPONENT, N_BITS_FRACTION, ALIGNED_V>:
\* the presets of numio/std.hpp and numio/fp_extra.hpp, the two of the
\* tests, and two whose bits exceed INT_IO_T
FloatLayouts ==
    { <<16, FALSE, 5, 10>>, <<32, FALSE, 8, 23>>, <<64, FALSE, 11, 52>>,
      <<16, FALSE, 8, 7>>, <<32, FALSE, 8, 10>>, <<32, FALSE, 7, 16>>,
      <<32, FALSE, 8, 15>>, <<32, TRUE, 8, 23>>,
      <<16, FALSE, 8, 23>>, <<32, FALSE, 11, 52>> }

FloatFormats ==
    { INTIO_TYPE(l[1], l[2], l[3], l[4], a) : l \in FloatLayouts, a \in BOOLEAN }

Formats == { f \in IntFormats : f.nbits <= f.cbits + 1 } \cup FloatFormats

\* the values handed to pack, for every format, computed once
ValuesOf == [f \in Formats |-> Values(f)]

(***************************************************************************)
(* FloatIO (debug.cpp:1515-1767).  FLOAT_T is double for the 11/52 layout  *)
(* and float for every other layout of FloatLayouts.  A FLOAT_T is a       *)
(* record: cls is "nan", "inf", "zero" or "fin"; sign is 1 for a negative  *)
(* value; a finite nonzero value is 1.fr * 2^e, the form std::frexp puts   *)
(* it in (times two), with fr the digits - 1 bits after the binary point,  *)
(* most significant first.  Every product, quotient and difference the     *)
(* codec computes is by a power of two or between such values, so it is    *)
(* exact, and is computed here on the bits.                                *)
(***************************************************************************)
\* sizeof(FLOAT_T)
sizeof_FLOAT_T(f) == IF f.ebits = 11 THEN 8 ELSE 4

\* std::numeric_limits<FLOAT_T>::digits - 1
FLOAT_T_FractionBits(f) == IF f.ebits = 11 THEN 52 ELSE 23

\* std::numeric_limits<FLOAT_T>::min_exponent - 1, max_exponent - 1
FLOAT_T_MinExponent(f) == IF f.ebits = 11 THEN -1022 ELSE -126
FLOAT_T_MaxExponent(f) == IF f.ebits = 11 THEN 1023 ELSE 127

NoFloat == [cls |-> "none", sign |-> 0, e |-> 0, fr |-> <<>>]
\* std::numeric_limits<FLOAT_T>::quiet_NaN()
NaNValue == [cls |-> "nan", sign |-> 0, e |-> 0, fr |-> <<>>]
\* std::numeric_limits<FLOAT_T>::infinity() * apply_sign
Infinity(s) == [cls |-> "inf", sign |-> s, e |-> 0, fr |-> <<>>]
Zero(s) == [cls |-> "zero", sign |-> s, e |-> 0, fr |-> <<>>]
Finite(s, e, fr) == [cls |-> "fin", sign |-> s, e |-> e, fr |-> fr]

\* the first n bits of a bit sequence (zeros where it has none), the rest
Take(D, n) == [j \in 1..n |-> IF j <= Len(D) THEN D[j] ELSE 0]
Drop(D, n) == IF n >= Len(D) THEN <<>> ELSE SubSeq(D, n + 1, Len(D))

AllZero(b) == \A j \in 1..Len(b) : b[j] = 0

\* EXPONENT_MASK, EXPONENT_BIAS
EXPONENT_MASK(f) == Pow2(f.ebits) - 1

\* a bias of half the exponent range, without the - 1
EXPONENT_BIAS_Half(f) == Pow2(f.ebits - 1)

EXPONENT_BIAS(f) == Pow2(f.ebits - 1) - 1

\* an overflow test against the mask instead of the bias
EXPONENT_MAX_Mask(f) == EXPONENT_MASK(f)

EXPONENT_MAX(f) == EXPONENT_BIAS(f)
EXPONENT_MIN(f) == -EXPONENT_BIAS(f) + 1
MIN_VAL_EXPONENT_NORMALIZED(f) == EXPONENT_MIN(f) - f.fbits - 1

\* binary_data & FRACTION_MASK, as F bits, most significant first
FractionField(f, bd) == [k \in 1..f.fbits |-> BitV(bd, f.fbits - k)]

\* (binary_data >> N_BITS_FRACTION) & EXPONENT_MASK
RECURSIVE ExponentFrom(_, _, _)
ExponentFrom(f, bd, k) ==
    IF k >= f.ebits THEN 0
    ELSE BitV(bd, f.fbits + k) * Pow2(k) + ExponentFrom(f, bd, k + 1)

ExponentField(f, bd) == ExponentFrom(f, bd, 0)

\* the sign taken from the top bit of INT_IO_T
SignField_TopBit(f, bd) == BitV(bd, f.cbits - 1)

\* (binary_data >> (N_BITS_FRACTION + N_BITS_EXPONENT)) & 1
SignField(f, bd) == BitV(bd, f.fbits + f.ebits)

\* a decoder without denormals: the leading one always assumed
denormalized_adjust_Always(exponent) == 1

\* denormalized_adjust = (exponent != 0) & 1
denormalized_adjust(exponent) == IF exponent # 0 THEN 1 ELSE 0

\* index of the first one of a bit sequence that has one
RECURSIVE LeadingOne(_, _)
LeadingOne(b, j) == IF b[j] = 1 THEN j ELSE LeadingOne(b, j + 1)

\* pow(2.0, p) * (adjust + fraction_numerator / FRACTION_DENOMINATOR)
\* * apply_sign, as a FLOAT_T
Scaled(f, sign, p, adjust, fraction) ==
    IF adjust = 1
    THEN Finite(sign, p, Take(fraction, FLOAT_T_FractionBits(f)))
    ELSE IF AllZero(fraction) THEN Zero(sign)
    ELSE LET q == LeadingOne(fraction, 1)
         IN  Finite(sign, p - q, Take(Drop(fraction, q), FLOAT_T_FractionBits(f)))

\* FloatIO::unpack<ENDIANNESS_V>(bytes, offset)
FloatIO_unpack(f, sl, e, bs, offset) ==
    LET binary_data        == unpack(f, sl, e, bs, offset)
        fraction_numerator == FractionField(f, binary_data)
        exponent           == ExponentField(f, binary_data)
        sign               == SignField(f, binary_data)
        adjust             == denormalized_adjust(exponent)
    IN  IF exponent = EXPONENT_MASK(f)
        THEN IF AllZero(fraction_numerator) THEN Infinity(sign) ELSE NaNValue
        ELSE Scaled(f, sign, -EXPONENT_BIAS(f) + exponent + 1 - adjust,
                    adjust, fraction_numerator)

\* FRACTION_DENOMINATOR itself, which FRACTION_MASK then clears
QuietNaNFraction_NoShift(f) == [k \in 1..f.fbits |-> 0]

\* FRACTION_DENOMINATOR >> 1: the top fraction bit alone
QuietNaNFraction(f) == [k \in 1..f.fbits |-> IF k = 1 THEN 1 ELSE 0]

\* the underflow branch without exponent = 0
UnderflowExponent_Kept(exponent) == exponent

\* exponent = 0 of the underflow branch
UnderflowExponent(exponent) == 0

\* a gradual underflow that takes the leading 1 away as the normal case does
Decompose_NoLeadingOne(f, x) ==
    IF x.e < MIN_VAL_EXPONENT_NORMALIZED(f)
    THEN [exponent |-> UnderflowExponent(x.e), int |-> <<>>, rem |-> <<>>]
    ELSE IF x.e < EXPONENT_MIN(f)
    THEN LET n == f.fbits + 1 - (EXPONENT_MIN(f) - x.e)
             D == <<0>> \o x.fr
         IN  [exponent |-> 0, int |-> Take(D, n), rem |-> Drop(D, n)]
    ELSE [exponent |-> x.e + EXPONENT_BIAS(f),
          int |-> Take(x.fr, f.fbits), rem |-> Drop(x.fr, f.fbits)]

\* The range checks of pack (debug.cpp:1673-1692) and fraction *=
\* FRACTION_DENOMINATOR: the exponent field, and the scaled fraction as the
\* bits before (int) and after (rem) the binary point.
Decompose(f, x) ==
    IF x.e < MIN_VAL_EXPONENT_NORMALIZED(f)
    THEN [exponent |-> UnderflowExponent(x.e), int |-> <<>>, rem |-> <<>>]
    ELSE IF x.e < EXPONENT_MIN(f)
    THEN LET n == f.fbits + 1 - (EXPONENT_MIN(f) - x.e)
             D == <<1>> \o x.fr
         IN  [exponent |-> 0, int |-> Take(D, n), rem |-> Drop(D, n)]
    ELSE [exponent |-> x.e + EXPONENT_BIAS(f),
          int |-> Take(x.fr, f.fbits), rem |-> Drop(x.fr, f.fbits)]

\* static_cast<INT_IO_T>(fraction), as F bits
Truncate(f, d) == Zeros(f.fbits - Len(d.int)) \o d.int

\* round half up
RoundsUp_HalfUp(numerator, rem) == rem # <<>> /\ rem[1] = 1

\* (fraction - fraction_numerator > 0.5) ||
\* ((fraction - fraction_numerator == 0.5) && (fraction_numerator % 2 == 1))
RoundsUp(numerator, rem) ==
    /\ rem # <<>>
    /\ rem[1] = 1
    /\ \/ ~AllZero(Tail(rem))
       \/ numerator[Len(numerator)] = 1

\* an increment that stops at FRACTION_DENOMINATOR - 1
Increment_Saturating(b) ==
    IF \A j \in 1..Len(b) : b[j] = 1 THEN b
    ELSE LET k == CHOOSE j \in 1..Len(b) :
                    b[j] = 0 /\ \A i \in (j + 1)..Len(b) : b[i] = 1
         IN  [j \in 1..Len(b) |-> IF j < k THEN b[j] ELSE IF j = k THEN 1 ELSE 0]

\* fraction_numerator += 1, which reaches FRACTION_DENOMINATOR when every
\* bit was set (then: all zeros)
Increment(b) ==
    IF \A j \in 1..Len(b) : b[j] = 1 THEN [j \in 1..Len(b) |-> 0]
    ELSE LET k == CHOOSE j \in 1..Len(b) :
                    b[j] = 0 /\ \A i \in (j + 1)..Len(b) : b[i] = 1
         IN  [j \in 1..Len(b) |-> IF j < k THEN b[j] ELSE IF j = k THEN 1 ELSE 0]

\* a carry check that lets the exponent reach the mask
CarryOverflows_Above(f, exponent) == exponent > EXPONENT_MASK(f)

\* if (exponent >= EXPONENT_MASK) throw
CarryOverflows(f, exponent) == exponent >= EXPONENT_MASK(f)

Fields(t, s, exponent, fraction) ==
    [thrown |-> t, sign |-> s, exponent |-> exponent, fraction |-> fraction]

\* Round to even (debug.cpp:1695-1709)
Round(f, s, d) ==
    LET n == Truncate(f, d)
    IN  IF ~RoundsUp(n, d.rem) THEN Fields("none", s, d.exponent, n)
        ELSE IF ~(\A j \in 1..Len(n) : n[j] = 1)
        THEN Fields("none", s, d.exponent, Increment(n))
        ELSE IF CarryOverflows(f, d.exponent + 1)
        THEN Fields("too_large", s, d.exponent + 1, Increment(n))
        ELSE Fields("none", s, d.exponent + 1, Increment(n))

\* fraction *= 2.0 after std::frexp(value, &exponent): the binary digits
\* of the fraction in [1.0, 2.0), the one before the binary point first
NormalizedFraction(x) == <<1>> \o x.fr

\* fraction < 0.5 || fraction >= 1.0 (debug.cpp:1665), on the digits of
\* twice the fraction: below 0.5 is a first digit of 0, and the digits hold
\* no value of 1.0 or more
FrexpOutOfRange(fraction) == fraction[1] # 1

\* the test made after the leading 1 is taken away
InvalidScenario_AfterLeadingOne(exponent, fraction) ==
    exponent = 0 /\ AllZero(Tail(fraction))

\* exponent == 0 && fraction == 0.0 (debug.cpp:1686)
InvalidScenario(exponent, fraction) == exponent = 0 /\ AllZero(fraction)

\* sign, exponent and fraction_numerator of pack (debug.cpp:1631-1710)
Encode(f, x) ==
    IF x.cls = "inf" THEN Fields("none", x.sign, EXPONENT_MASK(f), Zeros(f.fbits))
    ELSE IF x.cls = "nan" THEN Fields("none", 0, EXPONENT_MASK(f), QuietNaNFraction(f))
    ELSE IF x.cls = "zero" THEN Fields("none", x.sign, 0, Zeros(f.fbits))
    ELSE IF FrexpOutOfRange(NormalizedFraction(x))
    THEN Fields("frexp_out_of_range", x.sign, x.e, Zeros(f.fbits))
    ELSE IF x.e > EXPONENT_MAX(f) THEN Fields("too_large", x.sign, x.e, Zeros(f.fbits))
    ELSE IF x.e >= EXPONENT_MIN(f) /\ InvalidScenario(x.e, NormalizedFraction(x))
    THEN Fields("invalid_scenario", x.sign, x.e, Zeros(f.fbits))
    ELSE Round(f, x.sign, Decompose(f, x))

\* bit k of binary_data = (sign << (E + F)) | ((exponent & EXPONENT_MASK)
\* << F) | (fraction_numerator & FRACTION_MASK)
AssembledBit(f, c, k) ==
    IF k < f.fbits THEN c.fraction[f.fbits - k]
    ELSE IF k < f.fbits + f.ebits
    THEN BitOf(c.exponent % Pow2(f.ebits), k - f.fbits)
    ELSE IF k = f.fbits + f.ebits THEN c.sign
    ELSE 0

RECURSIVE AssembledByte(_, _, _, _)
AssembledByte(f, c, j, b) ==
    IF b >= CHAR_BITS THEN 0
    ELSE AssembledBit(f, c, CHAR_BITS * j + b) * Pow2(b)
         + AssembledByte(f, c, j, b + 1)

\* binary_data, as a container value
Assemble(f, c) == [j \in 1..ContainerBytes(f) |-> AssembledByte(f, c, j - 1, 0)]

\* a pack that grows the vector before it checks the range
FloatIO_pack_GrowFirst(f, sl, e, x, bs) ==
    LET c == Encode(f, x)
    IN  IF c.thrown # "none"
        THEN [thrown |-> c.thrown, binary_data |-> <<>>,
              bytes |-> bs \o Zeros(N_IO_BYTES(f))]
        ELSE [thrown |-> "none", binary_data |-> Assemble(f, c),
              bytes |-> pack(f, sl, e, Assemble(f, c), bs)]

\* FloatIO::pack<ENDIANNESS_V>(value, bytes): what it throws, the
\* binary_data it hands to the transport, and the vector after it
FloatIO_pack(f, sl, e, x, bs) ==
    LET c == Encode(f, x)
    IN  IF c.thrown # "none"
        THEN [thrown |-> c.thrown, binary_data |-> <<>>, bytes |-> bs]
        ELSE [thrown |-> "none", binary_data |-> Assemble(f, c),
              bytes |-> pack(f, sl, e, Assemble(f, c), bs)]

\* FloatIO::N_IO_BYTES = _N_DATA_BYTES = sizeof(FLOAT_T)
FloatIO_N_IO_BYTES(f) == sizeof_FLOAT_T(f)

(***************************************************************************)
(* Inputs of the float codec.                                              *)
(***************************************************************************)
\* the accepted FloatIO instantiations
ValidFloatFormats == { f \in FloatFormats : StaticAssert(f) }

\* x is a value of FLOAT_T: its exponent is in range, and below the normal
\* range the low bits of the fraction are zero (a denormal FLOAT_T)
IsFLOAT_T(f, x) ==
    /\ x.e <= FLOAT_T_MaxExponent(f)
    /\ x.e >= FLOAT_T_MinExponent(f) - FLOAT_T_FractionBits(f)
    /\ \A j \in 1..Len(x.fr) :
         j > FLOAT_T_FractionBits(f) - (FLOAT_T_MinExponent(f) - x.e) => x.fr[j] = 0

\* fractions of FLOAT_T around the rounding point of the format: F bits
\* ending in `low`, then the bits r1 r2, then zeros
FractionAround(f, low, r1, r2) ==
    [j \in 1..FLOAT_T_FractionBits(f) |->
        IF j < f.fbits THEN j % 2
        ELSE IF j = f.fbits THEN low
        ELSE IF j = f.fbits + 1 THEN r1
        ELSE IF j = f.fbits + 2 THEN r2
        ELSE 0]

InputFractions(f) ==
    { [j \in 1..FLOAT_T_FractionBits(f) |-> 0],
      [j \in 1..FLOAT_T_FractionBits(f) |-> 1],
      FractionAround(f, 1, 1, 0), FractionAround(f, 0, 1, 0),
      FractionAround(f, 0, 1, 1), FractionAround(f, 1, 0, 1) }

\* exponents around every range check of pack
InputExponents(f) ==
    { EXPONENT_MAX(f) + 1, EXPONENT_MAX(f), 0, EXPONENT_MIN(f),
      EXPONENT_MIN(f) - 1, EXPONENT_MIN(f) - f.fbits,
      MIN_VAL_EXPONENT_NORMALIZED(f), MIN_VAL_EXPONENT_NORMALIZED(f) - 1 }

\* the values packed onto a vector that holds bytes, and written to streams:
\* a zero, an infinity, a value that rounds, and the largest FLOAT_T
FewFloatValues(f) ==
    { Zero(1), Infinity(0), Finite(1, 0, FractionAround(f, 1, 1, 0)),
      Finite(0, FLOAT_T_MaxExponent(f), [j \in 1..FLOAT_T_FractionBits(f) |-> 1]) }

\* the FLOAT_T values handed to FloatIO::pack
FloatValues(f) ==
    { NaNValue, Infinity(0), Infinity(1), Zero(0), Zero(1) }
    \cup FewFloatValues(f)
    \cup { x \in { Finite(s, e, fr) : s \in {0, 1}, e \in InputExponents(f),
                                      fr \in InputFractions(f) } :
            IsFLOAT_T(f, x) }

FloatValuesOf == [f \in FloatFormats |-> FloatValues(f)]

\* the fraction fields of the bit patterns handed to FloatIO::unpack
PatternFractions(f) ==
    { [k \in 1..f.fbits |-> 0], [k \in 1..f.fbits |-> 1],
      [k \in 1..f.fbits |-> IF k = 1 THEN 1 ELSE 0],
      [k \in 1..f.fbits |-> IF k = f.fbits THEN 1 ELSE 0],
      [k \in 1..f.fbits |-> k % 2] }

PatternExponents(f) ==
    { 0, 1, EXPONENT_BIAS(f), EXPONENT_MASK(f) - 1, EXPONENT_MASK(f) }

\* the byte images of the tests (debug.cpp:559-562, 610-617, 636-643)
TestPatterns(f) ==
    IF f.ebits = 8 /\ f.fbits = 23 THEN { <<82, 6, 158, 63>> }
    ELSE IF f.ebits = 11 /\ f.fbits = 52
    THEN { <<90, 40, 253, 58, 221, 154, 191, 191>>,
           <<56, 57, 222, 68, 202, 192, 243, 63>> }
    ELSE {}

\* the bit patterns handed to FloatIO::unpack, as container values
Patterns(f) ==
    { Assemble(f, Fields("none", s, ex, fr)) :
        s \in {0, 1}, ex \in PatternExponents(f), fr \in PatternFractions(f) }
    \cup TestPatterns(f)

PatternsOf == [f \in FloatFormats |-> Patterns(f)]

\* what the bytes past size() of the write buffer may hold
StaleBytes == {0, 205}

\* the threads that call the codec
Threads == {1, 2}

\* A thread that is in no call.  buf is its byte vector; start, arg and at
\* are the vector, the value and the offset its last call was given, last
\* the function called and ret the value returned; over tells that another
\* thread was inside a call at some statement of the last call; offset,
\* value, i and result are the automatic variables of IntIO::pack and
\* IntIO::unpack.
Idle(buf) ==
    [pc |-> "idle", buf |-> buf, start |-> buf, last |-> "none",
     arg |-> <<>>, at |-> 0, ret |-> <<>>, over |-> FALSE,
     offset |-> 0, value |-> <<>>, i |-> 0, result |-> <<>>]

NoCalls == [t \in Threads |-> Idle(<<>>)]

(***************************************************************************)
(* The state machine: one build (format, system endianness, byte order of  *)
(* the calls), then the calls of one caller on one byte vector.            *)
(***************************************************************************)
InitOf(formats, hosts) ==
    /\ fmt \in formats
    /\ sysLittle \in hosts
    /\ endian \in {LITTLE, BIG}
    /\ phase = "declared"
    /\ bytes = <<>>
    /\ op = "none"
    /\ pre = <<>>
    /\ arg = <<>>
    /\ packed = <<>>
    /\ result = <<>>
    /\ roff = 0
    /\ fval = NoFloat
    /\ thrown = "none"
    /\ stream = <<>>
    /\ nio = 0
    /\ calls = NoCalls

\* the instantiations with value_bits of at least one
InitWith(hosts) == InitOf(Formats, hosts)

\* the build of the tests: a little-endian system
Init == InitWith({TRUE})

\* NUMIO_SYSTEM_ENDIANNESS_V / NUMIO_IS_SYSTEM_LITTLE_ENDIAN_V set either way
InitCross == InitWith(BOOLEAN)

\* Instantiating the class template evaluates its static_assert: a format
\* that fails it does not compile, and no call on it exists.
Instantiate ==
    /\ phase = "declared"
    /\ phase' = IF StaticAssert(fmt) THEN "ready" ELSE "rejected"
    /\ UNCHANGED <<fmt, sysLittle, endian, bytes, op, pre, arg, packed, result, roff>>
    /\ UNCHANGED fvars
    /\ UNCHANGED calls

\* The caller fills an empty vector with the bytes of a stream
\* (IntIO::read, debug.cpp:1479-1480).
Load(x) ==
    /\ phase = "ready"
    /\ bytes = <<>>
    /\ bytes' = Window(fmt, endian, x)
    /\ op' = "load"
    /\ pre' = bytes
    /\ arg' = <<>>
    /\ packed' = <<>>
    /\ result' = <<>>
    /\ roff' = 0
    /\ UNCHANGED <<fmt, sysLittle, endian, phase>>
    /\ UNCHANGED fvars
    /\ UNCHANGED calls

\* IntIO::pack<ENDIANNESS_V>(value, bytes)
Pack(v) ==
    /\ phase = "ready"
    /\ Len(packed) < MaxPacks
    /\ packed = <<>> \/ Len(bytes) = Len(packed) * N_IO_BYTES(fmt)
    /\ bytes' = pack(fmt, sysLittle, endian, v, bytes)
    /\ op' = "pack"
    /\ pre' = bytes
    /\ arg' = v
    /\ packed' = Append(packed, v)
    /\ result' = <<>>
    /\ roff' = 0
    /\ UNCHANGED <<fmt, sysLittle, endian, phase>>
    /\ UNCHANGED fvars
    /\ UNCHANGED calls

\* an unpack that takes its window out of the vector, as a stream read does
AfterUnpack_Taken(bs, offset, n) ==
    SubSeq(bs, 1, offset) \o SubSeq(bs, offset + n + 1, Len(bs))

\* The vector after unpack: the function indexes bytes[...] on the right of
\* its assignments only (debug.cpp:1376, 1382, 1387-1393) and calls no
\* member that changes it.
AfterUnpack(bs, offset, n) == bs

\* IntIO::unpack<ENDIANNESS_V>(bytes, offset), the window inside the vector
Unpack(offset) ==
    /\ phase = "ready"
    /\ offset + N_IO_BYTES(fmt) <= Len(bytes)
    /\ bytes' = AfterUnpack(bytes, offset, N_IO_BYTES(fmt))
    /\ result' = unpack(fmt, sysLittle, endian, bytes, offset)
    /\ roff' = offset
    /\ op' = "unpack"
    /\ pre' = bytes
    /\ arg' = <<>>
    /\ UNCHANGED <<fmt, sysLittle, endian, phase, packed>>
    /\ UNCHANGED fvars
    /\ UNCHANGED calls

Offsets == { j * N_IO_BYTES(fmt) : j \in 0..MaxPacks }

Next ==
    \/ Instantiate
    \/ \E x \in Vectors : Load(x)
    \/ \E v \in ValuesOf[fmt] : Pack(v)
    \/ \E offset \in Offsets : Unpack(offset)

Spec == Init /\ [][Next]_vars

SpecCross == InitCross /\ [][Next]_vars

\* a caller of FloatIO that works on a byte vector
OnVector == stream = <<>> /\ op \notin {"read", "write"}

\* a caller of FloatIO that works on a stream
OnStream == bytes = <<>> /\ op \in {"none", "read", "write"}

\* The caller fills an empty vector with the bytes of a bit pattern.
LoadPattern(p) ==
    /\ phase = "ready"
    /\ fmt.kind = "float"
    /\ op = "none"
    /\ bytes' = Window(fmt, endian, p)
    /\ op' = "load"
    /\ pre' = bytes
    /\ arg' = <<>>
    /\ packed' = <<>>
    /\ result' = <<>>
    /\ roff' = 0
    /\ UNCHANGED <<fmt, sysLittle, endian, phase>>
    /\ UNCHANGED fvars
    /\ UNCHANGED calls

\* FloatIO::unpack<ENDIANNESS_V>(bytes, offset), the window inside the vector
FloatUnpack(offset) ==
    /\ phase = "ready"
    /\ fmt.kind = "float"
    /\ OnVector
    /\ offset + N_IO_BYTES(fmt) <= Len(bytes)
    /\ bytes' = AfterUnpack(bytes, offset, N_IO_BYTES(fmt))
    /\ fval' = FloatIO_unpack(fmt, sysLittle, endian, bytes, offset)
    /\ result' = unpack(fmt, sysLittle, endian, bytes, offset)
    /\ thrown' = "none"
    /\ roff' = offset
    /\ op' = "funpack"
    /\ pre' = bytes
    /\ arg' = <<>>
    /\ UNCHANGED <<fmt, sysLittle, endian, phase, packed, stream, nio, calls>>

\* FloatIO::pack<ENDIANNESS_V>(value, bytes)
FloatPack(x) ==
    /\ phase = "ready"
    /\ fmt.kind = "float"
    /\ OnVector
    /\ Len(packed) < MaxPacks
    /\ packed = <<>> \/ Len(bytes) = Len(packed) * N_IO_BYTES(fmt)
    /\ bytes = <<>> \/ (x \in FewFloatValues(fmt) /\ fval \in FewFloatValues(fmt))
    /\ \E r \in {FloatIO_pack(fmt, sysLittle, endian, x, bytes)} :
           /\ bytes' = r.bytes
           /\ thrown' = r.thrown
           /\ arg' = r.binary_data
           /\ packed' = IF r.thrown = "none" THEN Append(packed, r.binary_data)
                        ELSE packed
    /\ fval' = x
    /\ op' = "fpack"
    /\ pre' = bytes
    /\ result' = <<>>
    /\ roff' = 0
    /\ UNCHANGED <<fmt, sysLittle, endian, phase, stream, nio, calls>>

\* FloatIO::write<ENDIANNESS_V>(value, s): pack into a buffer of its own,
\* then s.write(&buffer[0], N_IO_BYTES); g is what the storage past the
\* buffer's size holds
Write(x, g) ==
    /\ phase = "ready"
    /\ fmt.kind = "float"
    /\ OnStream
    /\ Len(stream) < MaxPacks * FloatIO_N_IO_BYTES(fmt)
    /\ \E r \in {FloatIO_pack(fmt, sysLittle, endian, x, <<>>)} :
         LET n == FloatIO_N_IO_BYTES(fmt)
             out == [j \in 1..n |-> IF j <= Len(r.bytes) THEN r.bytes[j] ELSE g]
         IN  /\ thrown' = r.thrown
             /\ stream' = IF r.thrown = "none" THEN stream \o out ELSE stream
             /\ nio' = IF r.thrown = "none" THEN n ELSE 0
    /\ fval' = x
    /\ op' = "write"
    /\ UNCHANGED <<fmt, sysLittle, endian, phase, bytes, pre, arg, packed, result, roff,
                   calls>>

\* FloatIO::read<ENDIANNESS_V>(s): N_IO_BYTES bytes of the stream into a
\* buffer, then unpack(buffer, 0)
Read ==
    /\ phase = "ready"
    /\ fmt.kind = "float"
    /\ OnStream
    /\ Len(stream) >= FloatIO_N_IO_BYTES(fmt)
    /\ LET n == FloatIO_N_IO_BYTES(fmt)
           buffer == SubSeq(stream, 1, n)
       IN  /\ fval' = FloatIO_unpack(fmt, sysLittle, endian, buffer, 0)
           /\ stream' = Drop(stream, n)
           /\ nio' = n
    /\ thrown' = "none"
    /\ op' = "read"
    /\ UNCHANGED <<fmt, sysLittle, endian, phase, bytes, pre, arg, packed, result, roff,
                   calls>>

\* the caller of FloatIO
NextFloat ==
    \/ Instantiate
    \/ \E p \in PatternsOf[fmt] : LoadPattern(p)
    \/ \E offset \in Offsets : FloatUnpack(offset)
    \/ \E offset \in Offsets : Unpack(offset)
    \/ \E x \in FloatValuesOf[fmt] : FloatPack(x)
    \/ \E x \in FewFloatValues(fmt), g \in StaleBytes : Write(x, g)
    \/ Read

\* the FloatIO instantiations, on the system of the tests
InitFloat == Init /\ fmt \in FloatFormats

SpecFloat == InitFloat /\ [][NextFloat]_vars

(***************************************************************************)
(* IntIO of the header src/include/numio.hpp (numio.hpp:114-311), which    *)
(* computes its value mask inside unpack and pack.                         *)
(***************************************************************************)
\* constexpr unsigned int VALUE_MASK = (1LL << N_BITS) - 1 (numio.hpp:195,
\* 241), converted to INT_T for the &=: the low 32 bits of 2^N_BITS - 1,
\* and zero above them
hpp_VALUE_MASK(f) ==
    [j \in 1..ContainerBytes(f) |->
        IF j <= 4 THEN MaskLoop[IF f.nbits < 32 THEN f.nbits ELSE 32][j] ELSE 0]

\* ~VALUE_MASK (numio.hpp:204): the complement of an unsigned int
hpp_NotValueMask(f) ==
    [j \in 1..ContainerBytes(f) |-> IF j <= 4 THEN 255 - hpp_VALUE_MASK(f)[j] ELSE 0]

\* 1LL << N_BITS is a constant expression: for N_BITS = 64 it is not, and
\* a call of unpack or pack is ill-formed
hpp_Compiles(f) == f.nbits < 64

\* IntIO::unpack of numio.hpp:175-208
hpp_unpack(f, sl, e, bs, offset) ==
    LET eo     == get_endianness_offset(f, sl, e)
        raw    == UnpackLoop(f, bs, eo, offset, 0, Zeros(ContainerBytes(f)))
        masked == AndV(raw, hpp_VALUE_MASK(f))
    IN  IF /\ f.nbits % N_CONTAINER_BITS(f) # 0
           /\ f.signed
           /\ ByteAnd(bs[SignByteIndex(f, eo) + offset + 1], SIGN_BIT_MASK(f)) # 0
        THEN OrV(masked, hpp_NotValueMask(f))
        ELSE masked

\* IntIO::pack of numio.hpp:233-259
hpp_pack(f, sl, e, value, bs) ==
    LET offset  == Len(bs)
        resized == bs \o Zeros(N_IO_BYTES(f))
        masked  == AndV(value, hpp_VALUE_MASK(f))
        eo      == get_endianness_offset(f, sl, e)
        n       == IF eo # 0 THEN N_DATA_BYTES(f) ELSE N_IO_BYTES(f)
    IN  PackLoop(f, masked, eo, offset, n, 0, resized)

\* IntIO::pack<ENDIANNESS_V>(value, bytes) of numio.hpp
PackHpp(v) ==
    /\ phase = "ready"
    /\ hpp_Compiles(fmt)
    /\ Len(packed) < MaxPacks
    /\ packed = <<>> \/ Len(bytes) = Len(packed) * N_IO_BYTES(fmt)
    /\ bytes' = hpp_pack(fmt, sysLittle, endian, v, bytes)
    /\ op' = "pack"
    /\ pre' = bytes
    /\ arg' = v
    /\ packed' = Append(packed, v)
    /\ result' = <<>>
    /\ roff' = 0
    /\ UNCHANGED <<fmt, sysLittle, endian, phase>>
    /\ UNCHANGED fvars
    /\ UNCHANGED calls

\* IntIO::unpack<ENDIANNESS_V>(bytes, offset) of numio.hpp
UnpackHpp(offset) ==
    /\ phase = "ready"
    /\ hpp_Compiles(fmt)
    /\ offset + N_IO_BYTES(fmt) <= Len(bytes)
    /\ bytes' = AfterUnpack(bytes, offset, N_IO_BYTES(fmt))
    /\ result' = hpp_unpack(fmt, sysLittle, endian, bytes, offset)
    /\ roff' = offset
    /\ op' = "unpack"
    /\ pre' = bytes
    /\ arg' = <<>>
    /\ UNCHANGED <<fmt, sysLittle, endian, phase, packed>>
    /\ UNCHANGED fvars
    /\ UNCHANGED calls

\* the caller of the IntIO of numio.hpp
NextHpp ==
    \/ Instantiate
    \/ \E x \in Vectors : Load(x)
    \/ \E v \in ValuesOf[fmt] : PackHpp(v)
    \/ \E offset \in Offsets : UnpackHpp(offset)

\* the integer instantiations
InitHpp == InitOf({ f \in Formats : f.kind = "int" }, {TRUE})

SpecHpp == InitHpp /\ [][NextHpp]_vars

(***************************************************************************)
(* Two threads that call IntIO::pack and IntIO::unpack, each on a byte     *)
(* vector of its own, one statement of debug.cpp:1365-1452 at a time.      *)
(***************************************************************************)
\* one set of automatic variables shared by every call, as statics would be
Frame_Static(t) == 1

\* offset, value, i and result are automatic variables (debug.cpp:1368,
\* 1375, 1428, 1431, 1442): each call has its own, in its thread's frame
Frame(t) == t

\* the formats of the tests (debug.cpp:130-547) and a full 16-bit container
ConcFormats ==
    { f \in Formats :
        /\ f.kind = "int"
        /\ \/ f.cbits = 32 /\ f.signed /\ f.aligned /\ f.nbits \in {13, 24}
           \/ f.cbits = 16 /\ ~f.signed /\ ~f.aligned /\ f.nbits = 16 }

\* the value each thread packs
ConcValue(t) ==
    IF t = 1 THEN InRange(fmt, MixedVector)
    ELSE SubSeq(GarbageVector, 1, ContainerBytes(fmt))

\* endianness_offset of the call (a constant expression)
ConcOffset == get_endianness_offset(fmt, sysLittle, endian)

\* a step of a thread changes calls only
ConcFrame ==
    UNCHANGED <<fmt, sysLittle, endian, phase, bytes, op, pre, arg, packed,
                result, roff, fval, thrown, stream, nio>>

\* thread t executes a statement: c is calls after it
Step(t, c) ==
    [c EXCEPT ![t].over = @ \/ \E u \in Threads \ {t} : calls[u].pc # "idle"]

\* thread t calls pack<ENDIANNESS_V>(value, bytes) with its vector
CallPack(t) ==
    /\ phase = "ready"
    /\ calls[t].pc = "idle"
    /\ Len(calls[t].buf) < MaxPacks * N_IO_BYTES(fmt)
    /\ calls' = Step(t, [calls EXCEPT ![t].pc = "resize", ![t].last = "none",
                              ![t].start = calls[t].buf,
                              ![t].arg = ConcValue(t), ![t].at = 0,
                              ![t].ret = <<>>, ![t].over = FALSE,
                              ![Frame(t)].value = ConcValue(t)])
    /\ ConcFrame

\* auto offset = bytes.size(); bytes.resize(offset+N_IO_BYTES);
PackResize(t) ==
    /\ calls[t].pc = "resize"
    /\ calls' = Step(t, [calls EXCEPT ![t].pc = "mask",
                              ![t].buf = @ \o Zeros(N_IO_BYTES(fmt)),
                              ![Frame(t)].offset = Len(calls[t].buf)])
    /\ ConcFrame

\* value &= _VALUE_MASK; and the loop's short i=0
PackMask(t) ==
    /\ calls[t].pc = "mask"
    /\ calls' = Step(t, [calls EXCEPT ![t].pc = "copy",
                              ![Frame(t)].value = AndV(@, VALUE_MASK(fmt)),
                              ![Frame(t)].i = 0])
    /\ ConcFrame

\* iterations of the copy loop of the call
PackCount == IF ConcOffset # 0 THEN N_DATA_BYTES(fmt) ELSE N_IO_BYTES(fmt)

\* bytes[...] = static_cast<std::uint8_t>((value >> (i * 8)) & 0xFF); i++
PackCopy(t) ==
    /\ calls[t].pc = "copy"
    /\ calls[Frame(t)].i < PackCount
    /\ LET fr == calls[Frame(t)]
       IN  calls' = Step(t, [calls EXCEPT
                ![t].buf[WriteIndex(ConcOffset, fr.i, fr.offset) + 1]
                    = ByteAt(fr.value, fr.i),
                ![Frame(t)].i = fr.i + 1])
    /\ ConcFrame

\* the loop ends and pack returns
PackReturn(t) ==
    /\ calls[t].pc = "copy"
    /\ calls[Frame(t)].i >= PackCount
    /\ calls' = Step(t, [calls EXCEPT ![t].pc = "idle", ![t].last = "pack"])
    /\ ConcFrame

\* thread t calls unpack<ENDIANNESS_V>(bytes, offset) with its vector:
\* INT_T result = 0; and the loop's short i=0
CallUnpack(t, offset) ==
    /\ phase = "ready"
    /\ calls[t].pc = "idle"
    /\ offset + N_IO_BYTES(fmt) <= Len(calls[t].buf)
    /\ calls' = Step(t, [calls EXCEPT ![t].pc = "read", ![t].last = "none",
                              ![t].start = calls[t].buf,
                              ![t].arg = <<>>, ![t].at = offset,
                              ![t].ret = <<>>, ![t].over = FALSE,
                              ![Frame(t)].offset = offset,
                              ![Frame(t)].result = Zeros(ContainerBytes(fmt)),
                              ![Frame(t)].i = 0])
    /\ ConcFrame

\* result |= static_cast<INT_T>(bytes[...]) << (i * 8); i++
UnpackRead(t) ==
    /\ calls[t].pc = "read"
    /\ calls[Frame(t)].i < N_DATA_BYTES(fmt)
    /\ LET fr == calls[Frame(t)]
       IN  calls' = Step(t, [calls EXCEPT
                ![Frame(t)].result =
                    OrShifted(fr.result,
                              calls[t].buf[ReadIndex(ConcOffset, fr.i, fr.offset) + 1],
                              fr.i),
                ![Frame(t)].i = fr.i + 1])
    /\ ConcFrame

\* the loop ends: the mask and the sign extension, and unpack returns
UnpackReturn(t) ==
    /\ calls[t].pc = "read"
    /\ calls[Frame(t)].i >= N_DATA_BYTES(fmt)
    /\ LET fr == calls[Frame(t)]
       IN  calls' = Step(t, [calls EXCEPT
                ![t].pc = "idle", ![t].last = "unpack",
                ![t].ret = IF fmt.nbits # N_CONTAINER_BITS(fmt)
                           THEN SignExtend(fmt, calls[t].buf, ConcOffset, fr.offset,
                                           AndV(fr.result, VALUE_MASK(fmt)))
                           ELSE fr.result])
    /\ ConcFrame

\* the two callers, in any interleaving of their statements
NextConc ==
    \/ Instantiate
    \/ \E t \in Threads : CallPack(t)
    \/ \E t \in Threads : PackResize(t)
    \/ \E t \in Threads : PackMask(t)
    \/ \E t \in Threads : PackCopy(t)
    \/ \E t \in Threads : PackReturn(t)
    \/ \E t \in Threads, offset \in Offsets : CallUnpack(t, offset)
    \/ \E t \in Threads : UnpackRead(t)
    \/ \E t \in Threads : UnpackReturn(t)

InitConc == InitOf(ConcFormats, {TRUE})

SpecConc == InitConc /\ [][NextConc]_vars

(***************************************************************************)
(* Every instantiation the template parameter list admits: N_BITS is an    *)
(* unsigned int (debug.cpp:1293), and 0 is its least value.                *)
(***************************************************************************)
\* IntIO<INT_T, 0, ALIGNED_V>
DegenerateFormats ==
    { [kind |-> "int", cbits |-> c, nbits |-> 0, signed |-> s, aligned |-> a,
       ebits |-> 0, fbits |-> 0] :
        c \in ContainerWidths, s \in BOOLEAN, a \in BOOLEAN }

Instantiations == Formats \cup DegenerateFormats

\* the container values handed to pack: for N_BITS = 0 no value has a
\* range to be in
InstValues(f) ==
    IF f.nbits = 0
    THEN { SubSeq(x, 1, ContainerBytes(f)) : x \in {MixedVector, GarbageVector} }
    ELSE ValuesOf[f]

\* Indices (from 0) of the vector elements unpack reads: bytes[...] of the
\* copy loop (debug.cpp:1376, 1382) and bytes[MSB+offset] (debug.cpp:1396).
\* MSB and offset are unsigned: -1 stands for the index their sum wraps
\* to, which is above every vector's size.
ReadIndices(f, sl, e, offset) ==
    LET eo == get_endianness_offset(f, sl, e)
    IN  { ReadIndex(eo, i, offset) : i \in 0..(N_DATA_BYTES(f) - 1) }
        \cup IF f.nbits # N_CONTAINER_BITS(f) /\ f.signed
             THEN { SignByteIndex(f, eo) + offset }
             ELSE {}

\* every element unpack reads is an element of the vector
ReadsInVector(offset) ==
    \A j \in ReadIndices(fmt, sysLittle, endian, offset) : 0 <= j /\ j < Len(bytes)

\* IntIO::unpack on a vector that lacks an element the call reads: what
\* such a read yields is not defined, and g is what it yields
UnpackOutside(offset, g) ==
    /\ phase = "ready"
    /\ offset + N_IO_BYTES(fmt) <= Len(bytes)
    /\ ~ReadsInVector(offset)
    /\ bytes' = AfterUnpack(bytes, offset, N_IO_BYTES(fmt))
    /\ result' = unpack(fmt, sysLittle, endian, <<g>> \o bytes \o <<g>>, offset + 1)
    /\ roff' = offset
    /\ op' = "unpack"
    /\ pre' = bytes
    /\ arg' = <<>>
    /\ UNCHANGED <<fmt, sysLittle, endian, phase, packed>>
    /\ UNCHANGED fvars
    /\ UNCHANGED calls

\* the caller of any instantiation that compiles
NextInst ==
    \/ Instantiate
    \/ \E x \in Vectors : Load(x)
    \/ \E v \in InstValues(fmt) : Pack(v)
    \/ \E offset \in Offsets : ReadsInVector(offset) /\ Unpack(offset)
    \/ \E offset \in Offsets, g \in StaleBytes : UnpackOutside(offset, g)

InitInst == InitOf(Instantiations, {TRUE})

SpecInst == InitInst /\ [][NextInst]_vars

(***************************************************************************)
(* Properties.                                                             *)
(***************************************************************************)
\* the vector held nothing but the packed values' windows
OnlyPacks == packed # <<>> /\ Len(bytes) = Len(packed) * N_IO_BYTES(fmt)

\* C1: integer round-trip.  A value representable in N_BITS bits, packed
\* into an empty vector and unpacked at offset 0, comes back unchanged, for
\* every accepted format and both byte orders (and, applying the two
\* functions directly, for either system endianness).
C1_RoundTrip ==
    (op = "unpack" /\ roff = 0 /\ Len(packed) = 1 /\ OnlyPacks
        /\ Representable(fmt, packed[1]))
    => /\ result = packed[1]
       /\ \A sl \in BOOLEAN :
            unpack(fmt, sl, endian, pack(fmt, sl, endian, packed[1], <<>>), 0)
                = packed[1]

\* a negative value of a narrow signed format came back from a multi-byte
\* big-endian window
C1_Witness ==
    /\ op = "unpack" /\ roff = 0 /\ Len(packed) = 1 /\ OnlyPacks
    /\ Representable(fmt, packed[1])
    /\ fmt.signed /\ fmt.nbits < fmt.cbits /\ fmt.cbits = 64
    /\ endian = BIG /\ N_IO_BYTES(fmt) > 1
    /\ result[ContainerBytes(fmt)] = 255
    /\ result = packed[1]

\* C2: after a sequence of pack calls with representable values v1..vk on
\* an initially empty vector, unpack at offset (j-1)*N_IO_BYTES returns vj.
C2_PacksRecoverable ==
    (op = "unpack" /\ OnlyPacks
        /\ \A j \in 1..Len(packed) : Representable(fmt, packed[j]))
    => result = packed[(roff \div N_IO_BYTES(fmt)) + 1]

\* C3: pack appends.  The vector after the call is the vector before it
\* followed by exactly N_IO_BYTES bytes, the encoding of the value (what
\* pack produces for it on an empty vector).
C3_PackAppends ==
    op = "pack"
    => /\ Len(bytes) = Len(pre) + N_IO_BYTES(fmt)
       /\ SubSeq(bytes, 1, Len(pre)) = pre
       /\ SubSeq(bytes, Len(pre) + 1, Len(bytes))
            = pack(fmt, sysLittle, endian, arg, <<>>)

\* the low N_BITS bits of a byte sequence, as a container value
LowBits(f, x) == [j \in 1..ContainerBytes(f) |-> ExtendByte(x, f.nbits, 0, j)]

\* position (from 1) in a window of the data byte of significance k:
\* least significant first for LITTLE, most significant first for BIG
DataPos(f, e, k) == IF e = LITTLE THEN k + 1 ELSE N_IO_BYTES(f) - k

\* the data bytes of window w in byte order e, least significant first
DataPattern(f, e, w) ==
    [j \in 1..8 |-> IF j <= N_DATA_BYTES(f) THEN w[DataPos(f, e, j - 1)] ELSE 0]

\* the window the last unpack was given
UnpackWindow == SubSeq(bytes, roff + 1, roff + N_IO_BYTES(fmt))

\* C4: whatever the configured system endianness, pack<LITTLE> stores the
\* least significant byte of the masked value first and pack<BIG> the most
\* significant byte first (the data byte of significance k is
\* (value >> 8k) & 0xFF), and unpack reads a window by the same convention.
C4_SystemIndependent ==
    /\ (op = "pack" /\ pre = <<>>)
       => \A k \in 0..(N_DATA_BYTES(fmt) - 1) :
            bytes[DataPos(fmt, endian, k)] = LowBits(fmt, arg)[k + 1]
    /\ op = "unpack"
       => LowBits(fmt, result)
            = LowBits(fmt, DataPattern(fmt, endian, UnpackWindow))

\* C5: endianness symmetry.  For every value, the data bytes pack<BIG>
\* emits on an empty vector are those of pack<LITTLE> in reverse order; the
\* data bytes follow the padding in BIG and precede it in LITTLE.  (Applied
\* directly, the whole BIG window is the reverse of the LITTLE one for
\* either system endianness.)
C5_EndianSymmetry ==
    (op = "pack" /\ pre = <<>>)
    => LET big == pack(fmt, sysLittle, BIG, arg, <<>>)
           lit == pack(fmt, sysLittle, LITTLE, arg, <<>>)
           nd  == N_DATA_BYTES(fmt)
           na  == N_ALIGN_BYTES(fmt)
       IN  /\ bytes = IF endian = BIG THEN big ELSE lit
           /\ \A k \in 1..nd : big[na + k] = lit[nd + 1 - k]
           /\ \A k \in 1..nd : lit[k] = LowBits(fmt, arg)[k]
           /\ \A sl \in BOOLEAN :
                pack(fmt, sl, BIG, arg, <<>>)
                    = Reverse(pack(fmt, sl, LITTLE, arg, <<>>))

\* an aligned format with padding and three data bytes that differ
C5_Witness ==
    /\ op = "pack" /\ pre = <<>> /\ endian = BIG
    /\ fmt.aligned /\ N_ALIGN_BYTES(fmt) >= 1 /\ N_DATA_BYTES(fmt) = 3
    /\ bytes[N_ALIGN_BYTES(fmt) + 1] # bytes[N_IO_BYTES(fmt)]
    /\ bytes[1] = 0

\* number of value bits in the most significant data byte
TopByteBits(f) == ((f.nbits - 1) % CHAR_BITS) + 1

\* position p of a window in byte order e holds alignment padding
IsPadding(f, e, p) ==
    IF e = LITTLE THEN p > N_DATA_BYTES(f) ELSE p <= N_ALIGN_BYTES(f)

\* window w with every bit outside the value_bits region taken from g: the
\* padding bytes, and the bits above value_bits in the top data byte
Garble(f, e, w, g) ==
    [p \in 1..N_IO_BYTES(f) |->
        IF IsPadding(f, e, p) THEN g
        ELSE IF p = DataPos(f, e, N_DATA_BYTES(f) - 1)
             THEN (w[p] % Pow2(TopByteBits(f)))
                  + (g \div Pow2(TopByteBits(f))) * Pow2(TopByteBits(f))
             ELSE w[p]]

GarbageBytes == {0, 255, 66, 165, 90}

\* C6: garbage-padding immunity.  Windows that agree on the low value_bits
\* bits of the data bytes unpack to the same value, whatever the padding
\* bytes and the bits above value_bits hold; in particular to the value of
\* the window with those positions zeroed.
C6_GarbageImmunity ==
    op = "unpack"
    => \A g \in GarbageBytes :
         unpack(fmt, sysLittle, endian,
                Garble(fmt, endian, UnpackWindow, g), 0) = result

\* a negative value was unpacked from a window whose padding and top bits
\* hold garbage
C6_Witness ==
    /\ op = "unpack" /\ packed = <<>>
    /\ fmt.signed /\ N_ALIGN_BYTES(fmt) >= 1 /\ fmt.nbits % CHAR_BITS # 0
    /\ \E p \in 1..N_IO_BYTES(fmt) : IsPadding(fmt, endian, p) /\ bytes[p] # 0
    /\ bytes[DataPos(fmt, endian, N_DATA_BYTES(fmt) - 1)]
         >= Pow2(TopByteBits(fmt))
    /\ result[ContainerBytes(fmt)] = 255

\* C7: normalization is idempotent.  With v the value unpacked from a
\* window of arbitrary bytes, b1 = pack(v), v1 = unpack(b1), b2 = pack(v1)
\* (each pack on an empty vector): v1 = v and b2 = b1.
C7_NormalizeIdempotent ==
    op = "unpack"
    => LET v  == result
           b1 == pack(fmt, sysLittle, endian, v, <<>>)
           v1 == unpack(fmt, sysLittle, endian, b1, 0)
           b2 == pack(fmt, sysLittle, endian, v1, <<>>)
       IN  v1 = v /\ b2 = b1

\* the window was loaded with garbage that the first pack clears, and the
\* value is negative
C7_Witness ==
    /\ op = "unpack" /\ packed = <<>> /\ Len(bytes) = N_IO_BYTES(fmt)
    /\ fmt.signed /\ fmt.nbits < fmt.cbits
    /\ result[ContainerBytes(fmt)] = 255
    /\ pack(fmt, sysLittle, endian, result, <<>>) # bytes

\* the integer a container value of at most 32 bits stands for
RECURSIVE SumBytes(_, _)
SumBytes(v, j) ==
    IF j > Len(v) THEN 0 ELSE v[j] * Pow2(CHAR_BITS * (j - 1)) + SumBytes(v, j + 1)

IntOf(v) ==
    IF v[Len(v)] >= 128 THEN -SumBytes(NotV(v), 1) - 1 ELSE SumBytes(v, 1)

I24A == [kind |-> "int", cbits |-> 32, nbits |-> 24, signed |-> TRUE,
         aligned |-> TRUE, ebits |-> 0, fbits |-> 0]
I13A == [kind |-> "int", cbits |-> 32, nbits |-> 13, signed |-> TRUE,
         aligned |-> TRUE, ebits |-> 0, fbits |-> 0]

\* C8: sign extension.  For a signed container with value_bits below
\* container_bits, unpack returns the two's-complement reading of the low
\* value_bits data bits: those bits, with every higher bit set when bit
\* value_bits-1 is set (the low bits minus 2^value_bits) and clear when it
\* is not; both byte orders, both alignments.  24-bit little-endian aligned
\* FF FF 7F 00 is 8388607 and FF FF FF 00 is -1; 13-bit FF 1F 00 00 is -1.
C8_SignExtension ==
    (op = "unpack" /\ fmt.signed /\ fmt.nbits < fmt.cbits)
    => LET data == DataPattern(fmt, endian, UnpackWindow)
           low  == LowBits(fmt, data)
       IN  /\ result = InRange(fmt, data)
           /\ BitV(data, fmt.nbits - 1) = 0 => result = low
           /\ BitV(data, fmt.nbits - 1) = 1
                => result = OrV(low, NotV(LowBits(fmt, [j \in 1..8 |-> 255])))
           /\ (fmt = I24A /\ endian = LITTLE /\ UnpackWindow = <<255, 255, 127, 0>>)
                => IntOf(result) = 8388607
           /\ (fmt = I24A /\ endian = LITTLE /\ UnpackWindow = <<255, 255, 255, 0>>)
                => IntOf(result) = -1
           /\ (fmt = I13A /\ endian = LITTLE /\ UnpackWindow = <<255, 31, 0, 0>>)
                => IntOf(result) = -1

\* the 24-bit aligned window FF FF FF 00 was unpacked, big-endian
C8_Witness ==
    /\ op = "unpack" /\ fmt = I24A /\ endian = BIG
    /\ UnpackWindow = <<0, 255, 255, 255>>
    /\ IntOf(result) = -1

\* C9: alignment sizes.  With value_bits above 8 an aligned format packs
\* exactly container_bits/8 bytes and an unaligned one exactly
\* ceil(value_bits/8) bytes: N_IO_BYTES has that value and the vector grows
\* by it.
C9_AlignmentSizes ==
    (phase = "ready" /\ fmt.nbits > 8)
    => LET want == IF fmt.aligned THEN fmt.cbits \div 8
                   ELSE (fmt.nbits + 7) \div 8
       IN  /\ N_IO_BYTES(fmt) = want
           /\ op = "pack" => Len(bytes) = Len(pre) + want

\* an aligned format with at least two padding bytes was packed
C9_Witness ==
    /\ op = "pack" /\ pre = <<>>
    /\ fmt.aligned /\ fmt.nbits > 8 /\ N_ALIGN_BYTES(fmt) >= 2
    /\ Len(bytes) = fmt.cbits \div 8

\* C10: a descriptor with value_bits above container_bits (for FloatIO:
\* 1 + exponent bits + fraction bits above the bits of the integer
\* transport type) is rejected when the template is instantiated, and no
\* pack or unpack ever runs on it.
C10_ConfigRejected ==
    /\ (phase = "ready" \/ op # "none" \/ bytes # <<>>)
       => /\ fmt.nbits <= fmt.cbits
          /\ fmt.kind = "float" => 1 + fmt.ebits + fmt.fbits <= fmt.cbits
    /\ (fmt.nbits > fmt.cbits /\ phase # "declared")
       => phase = "rejected" /\ op = "none" /\ bytes = <<>>

\* a FloatIO layout wider than its transport type was rejected
C10_Witness ==
    /\ phase = "rejected" /\ fmt.kind = "float"
    /\ 1 + fmt.ebits + fmt.fbits > fmt.cbits

(***************************************************************************)
(* Properties of the float codec.                                          *)
(***************************************************************************)
\* every value of the format is a FLOAT_T: no more fraction bits, and no
\* exponent outside the range FLOAT_T has with its denormals
ExactInFLOAT_T(f) ==
    /\ f.fbits <= FLOAT_T_FractionBits(f)
    /\ EXPONENT_MAX(f) <= FLOAT_T_MaxExponent(f)
    /\ EXPONENT_MIN(f) - f.fbits
         >= FLOAT_T_MinExponent(f) - FLOAT_T_FractionBits(f)

\* the bits of 0x1E0652, the fraction field of 1.23456789f
Fraction123 ==
    <<0, 0, 1, 1, 1, 1, 0, 0, 0, 0, 0, 0, 1, 1, 0, 0, 1, 0, 1, 0, 0, 1, 0>>

\* C11: float bit-exact round trip.  For a format whose values are exact in
\* FLOAT_T, either byte order, and a window whose bit pattern is not a NaN
\* (denormals, signed zeros and infinities included), FloatIO::pack of the
\* value FloatIO::unpack returned, on an empty vector, throws nothing and
\* gives the bytes of the window.  The little-endian bytes 52 06 9E 3F of
\* the 1/8/23 layout decode to 1.23456789f = 1.(0x1E0652 / 2^23) * 2^0.
C11_FloatRoundTrip ==
    (op = "funpack" /\ ExactInFLOAT_T(fmt) /\ fval.cls # "nan")
    => /\ FloatIO_pack(fmt, sysLittle, endian, fval, <<>>)
            = [thrown |-> "none", binary_data |-> result, bytes |-> UnpackWindow]
       /\ (fmt.fbits = 23 /\ endian = LITTLE /\ UnpackWindow = <<82, 6, 158, 63>>)
            => fval = Finite(0, 0, Fraction123)

\* a negative denormal pattern of a padded format was unpacked, big-endian
C11_Witness ==
    /\ op = "funpack" /\ ExactInFLOAT_T(fmt)
    /\ fval.cls = "fin" /\ fval.sign = 1 /\ fval.e < EXPONENT_MIN(fmt) - 1
    /\ endian = BIG /\ N_ALIGN_BYTES(fmt) >= 1
    /\ FloatIO_pack(fmt, sysLittle, endian, fval, <<>>).bytes = bytes

\* bit k of the bit pattern in the first window of the vector
PackedBit(k) ==
    BitV(DataPattern(fmt, endian, SubSeq(bytes, 1, N_IO_BYTES(fmt))), k)

\* the exponent field of that pattern is all ones / all zeros
ExponentAllOnes == \A k \in fmt.fbits..(fmt.fbits + fmt.ebits - 1) : PackedBit(k) = 1
ExponentAllZeros == \A k \in fmt.fbits..(fmt.fbits + fmt.ebits - 1) : PackedBit(k) = 0

\* the fraction field of that pattern is 0 / is 2^(F-1)
FractionZero == \A k \in 0..(fmt.fbits - 1) : PackedBit(k) = 0
FractionTopBitOnly ==
    \A k \in 0..(fmt.fbits - 1) : PackedBit(k) = IF k = fmt.fbits - 1 THEN 1 ELSE 0

\* the sign bit of that pattern
SignBit == PackedBit(fmt.fbits + fmt.ebits)

\* C12: encoding of special values.  FloatIO::pack on an empty vector never
\* throws for them and encodes an infinity as exponent all ones, fraction 0,
\* sign bit the sign of the input; NaN as exponent all ones, fraction
\* 2^(F-1), sign bit 0; a zero as exponent 0, fraction 0 and its sign bit,
\* so that +0.0 and -0.0 give different bytes.
C12_SpecialEncoding ==
    (op = "fpack" /\ pre = <<>>)
    => /\ fval.cls = "inf"
            => /\ thrown = "none"
               /\ ExponentAllOnes /\ FractionZero /\ SignBit = fval.sign
       /\ fval.cls = "nan"
            => /\ thrown = "none"
               /\ ExponentAllOnes /\ FractionTopBitOnly /\ SignBit = 0
       /\ fval.cls = "zero"
            => /\ thrown = "none"
               /\ ExponentAllZeros /\ FractionZero /\ SignBit = fval.sign
               /\ bytes # FloatIO_pack(fmt, sysLittle, endian,
                                       Zero(1 - fval.sign), <<>>).bytes

\* NaN was packed big-endian by a format with padding
C12_Witness ==
    /\ op = "fpack" /\ pre = <<>> /\ fval.cls = "nan" /\ thrown = "none"
    /\ endian = BIG /\ N_ALIGN_BYTES(fmt) >= 1
    /\ ExponentAllOnes /\ FractionTopBitOnly /\ SignBit = 0

\* bit k of the bit pattern in the window the last unpack was given
WindowBit(k) == BitV(DataPattern(fmt, endian, UnpackWindow), k)

WindowExponentAllOnes ==
    \A k \in fmt.fbits..(fmt.fbits + fmt.ebits - 1) : WindowBit(k) = 1
WindowExponentAllZeros ==
    \A k \in fmt.fbits..(fmt.fbits + fmt.ebits - 1) : WindowBit(k) = 0
WindowFractionZero == \A k \in 0..(fmt.fbits - 1) : WindowBit(k) = 0
WindowSignBit == WindowBit(fmt.fbits + fmt.ebits)

\* C13: decoding of special values.  FloatIO::unpack of a pattern whose
\* exponent field is all ones returns the infinity whose sign is the sign
\* bit when the fraction field is 0 and NaN for every other fraction field;
\* a pattern with exponent 0 and fraction 0 decodes to the zero whose sign
\* is the sign bit.
C13_SpecialDecoding ==
    op = "funpack"
    => /\ (WindowExponentAllOnes /\ WindowFractionZero)
            => fval = Infinity(WindowSignBit)
       /\ (WindowExponentAllOnes /\ ~WindowFractionZero)
            => fval.cls = "nan"
       /\ (WindowExponentAllZeros /\ WindowFractionZero)
            => fval = Zero(WindowSignBit)

\* minus infinity was unpacked from a big-endian window of a format with
\* padding
C13_Witness ==
    /\ op = "funpack" /\ endian = BIG /\ N_ALIGN_BYTES(fmt) >= 1
    /\ WindowExponentAllOnes /\ WindowFractionZero /\ WindowSignBit = 1
    /\ fval = Infinity(1)

\* C14: magnitude overflow is an error, not infinity.  FloatIO::pack of a
\* finite nonzero value |value| = f' * 2^e', f' in [1,2), with e' above the
\* bias 2^(E-1) - 1 throws "too large" and encodes nothing: the vector is
\* left as it was (and write puts nothing on the stream).
C14_OverflowIsError ==
    (op \in {"fpack", "write"} /\ fval.cls = "fin"
        /\ fval.e > Pow2(fmt.ebits - 1) - 1)
    => /\ thrown = "too_large"
       /\ op = "fpack" => bytes = pre /\ arg = <<>>
       /\ op = "write" => nio = 0

\* a negative value one binade above the largest of the format was packed
C14_Witness ==
    /\ op = "fpack" /\ fval.cls = "fin" /\ fval.sign = 1
    /\ fval.e = Pow2(fmt.ebits - 1) /\ AllZero(fval.fr)
    /\ thrown = "too_large" /\ bytes = <<>>

\* C15: error atomicity.  When FloatIO::pack throws (too large before
\* rounding, or after the rounding carry) the vector is exactly as it was
\* before the call; when it does not, the vector has grown by the
\* N_IO_BYTES of the transport.
C15_ErrorAtomicity ==
    op = "fpack"
    => /\ thrown # "none" => bytes = pre
       /\ thrown = "none" => Len(bytes) = Len(pre) + N_IO_BYTES(fmt)

\* the rounding carry overflowed while the vector held an earlier value
C15_Witness ==
    /\ op = "fpack" /\ thrown = "too_large" /\ pre # <<>>
    /\ fval.cls = "fin" /\ fval.e = EXPONENT_MAX(fmt)
    /\ bytes = pre

\* C16: finite values never encode as infinity or NaN.  When FloatIO::pack
\* of a finite value (zero included) does not throw, the exponent field of
\* the binary_data it assembled is below all ones, also after a rounding
\* carry; packed on an empty vector, the bytes show the same.
C16_FiniteStaysFinite ==
    (op = "fpack" /\ fval.cls \in {"fin", "zero"} /\ thrown = "none")
    => /\ \E k \in fmt.fbits..(fmt.fbits + fmt.ebits - 1) : BitV(arg, k) = 0
       /\ pre = <<>> => ~ExponentAllOnes

\* a fraction of all ones rounded up with a carry into the exponent, and
\* the call did not throw
C16_Witness ==
    /\ op = "fpack" /\ thrown = "none" /\ pre = <<>>
    /\ fval.cls = "fin" /\ fval.e >= EXPONENT_MIN(fmt)
    /\ fmt.fbits < FLOAT_T_FractionBits(fmt)
    /\ \A j \in 1..Len(fval.fr) : fval.fr[j] = 1
    /\ FractionZero /\ ~ExponentAllOnes /\ ~ExponentAllZeros

\* C17: underflow is never an error.  FloatIO::pack of a finite nonzero
\* value with e' < (1 - bias) - F - 1 does not throw and encodes the zero of
\* the input's sign: exponent field 0, fraction field 0, and the sign bit.
C17_UnderflowToZero ==
    (op = "fpack" /\ fval.cls = "fin"
        /\ fval.e < (1 - (Pow2(fmt.ebits - 1) - 1)) - fmt.fbits - 1)
    => /\ thrown = "none"
       /\ \A k \in 0..(fmt.cbits - 1) :
            BitV(arg, k) = IF k = fmt.fbits + fmt.ebits THEN fval.sign ELSE 0
       /\ pre = <<>>
            => ExponentAllZeros /\ FractionZero /\ SignBit = fval.sign

\* a negative value below half the smallest denormal of the format, with
\* fraction bits set, was packed
C17_Witness ==
    /\ op = "fpack" /\ pre = <<>> /\ thrown = "none"
    /\ fval.cls = "fin" /\ fval.sign = 1 /\ ~AllZero(fval.fr)
    /\ fval.e < MIN_VAL_EXPONENT_NORMALIZED(fmt)
    /\ ExponentAllZeros /\ FractionZero /\ SignBit = 1

\* The scaled fraction of the value last packed, by the format's rules: for
\* a normal value (e' >= 1 - bias) the fraction bits of f' times 2^F, for a
\* denormal one f' * 2^(e' - (1 - bias)) times 2^F; int holds the F bits
\* before the binary point and rem the bits after it.
ScaledFraction ==
    LET minNormal == 1 - (Pow2(fmt.ebits - 1) - 1)
        digits    == IF fval.e >= minNormal THEN fval.fr ELSE <<1>> \o fval.fr
        n         == IF fval.e >= minNormal THEN fmt.fbits
                     ELSE fmt.fbits + 1 - (minNormal - fval.e)
    IN  [int |-> [j \in 1..fmt.fbits |->
                    IF j <= fmt.fbits - n THEN 0
                    ELSE IF j - (fmt.fbits - n) <= Len(digits)
                         THEN digits[j - (fmt.fbits - n)] ELSE 0],
         rem |-> [j \in 1..(Len(digits) - n) |-> digits[n + j]]]

\* the number a sequence of at most 30 bits, most significant first, stands for
RECURSIVE BitsValue(_, _)
BitsValue(b, j) ==
    IF j > Len(b) THEN 0 ELSE b[j] * Pow2(Len(b) - j) + BitsValue(b, j + 1)

\* the remainder is above one half / is exactly one half
AboveHalf(rem) == Len(rem) >= 2 /\ rem[1] = 1 /\ \E j \in 2..Len(rem) : rem[j] = 1
ExactlyHalf(rem) == Len(rem) >= 1 /\ rem[1] = 1 /\ \A j \in 2..Len(rem) : rem[j] = 0

\* C18: round to nearest even.  When FloatIO::pack of a finite nonzero value
\* that does not underflow to zero succeeds, the fraction field is the
\* integer part n of the scaled fraction, plus one (modulo 2^F, the carry)
\* exactly when the remainder is above 0.5, or is 0.5 and n is odd.
C18_RoundToEven ==
    (op = "fpack" /\ fval.cls = "fin" /\ thrown = "none"
        /\ fval.e >= (1 - (Pow2(fmt.ebits - 1) - 1)) - fmt.fbits - 1)
    => LET sc == ScaledFraction
           up == \/ AboveHalf(sc.rem)
                 \/ ExactlyHalf(sc.rem) /\ sc.int[fmt.fbits] = 1
       IN  /\ ~up => FractionField(fmt, arg) = sc.int
           /\ up => /\ fmt.fbits <= 23
                    /\ BitsValue(FractionField(fmt, arg), 1)
                         = (BitsValue(sc.int, 1) + 1) % Pow2(fmt.fbits)

\* a remainder of exactly one half went up to the even neighbour: n was odd
C18_Witness ==
    /\ op = "fpack" /\ pre = <<>> /\ thrown = "none" /\ fval.cls = "fin"
    /\ fval.e = 0 /\ fmt.fbits < FLOAT_T_FractionBits(fmt)
    /\ ExactlyHalf(ScaledFraction.rem) /\ ScaledFraction.int[fmt.fbits] = 1
    /\ PackedBit(0) = 0 /\ PackedBit(1) = 1

\* C19: FloatIO::N_IO_BYTES is the number of bytes of the packed data: the
\* bytes FloatIO::read takes from the stream and FloatIO::write puts on it
\* are as many as FloatIO::pack appends, the N_IO_BYTES of the
\* (1 + E + F)-bit transport.
C19_FloatIoBytes ==
    (op \in {"read", "write"} /\ thrown = "none") => nio = N_IO_BYTES(fmt)

\* C20: unpack is read-only.  After IntIO::unpack and after FloatIO::unpack
\* the vector has the length and the bytes it had before the call, for
\* every offset whose window lies in the vector, every format and both byte
\* orders.
C20_UnpackReadOnly ==
    op \in {"unpack", "funpack"} => Len(bytes) = Len(pre) /\ bytes = pre

\* FloatIO::unpack read the second window of a vector, big-endian
C20_Witness ==
    /\ op = "funpack" /\ roff > 0 /\ endian = BIG
    /\ Len(bytes) = 2 * N_IO_BYTES(fmt) /\ bytes = pre
    /\ \E j \in 1..Len(bytes) : bytes[j] # 0

(***************************************************************************)
(* Properties of the derived sizes, the padding and the degenerate         *)
(* instantiation.                                                          *)
(***************************************************************************)
\* ceil(value_bits / 8)
CeilBytes(n) == (n + 7) \div 8

C23_IoBytesPositive ==
    phase = "ready" => N_IO_BYTES(fmt) >= 1

\* C24: zero padding.  Of the bytes pack emits on an empty vector, every
\* bit outside the value_bits region is zero: the align_bytes padding bytes,
\* which follow the data bytes for LITTLE and precede them for BIG, and the
\* bits above value_bits in the most significant data byte; for every
\* value, negative ones included.
C24_ZeroPadding ==
    (op = "pack" /\ pre = <<>>)
    => /\ Len(bytes) = N_DATA_BYTES(fmt) + N_ALIGN_BYTES(fmt)
       /\ \A p \in 1..Len(bytes) :
            /\ (endian = LITTLE /\ p > N_DATA_BYTES(fmt)) => bytes[p] = 0
            /\ (endian = BIG /\ p <= N_ALIGN_BYTES(fmt)) => bytes[p] = 0
       /\ LET top == IF endian = LITTLE THEN N_DATA_BYTES(fmt)
                     ELSE N_ALIGN_BYTES(fmt) + 1
          IN  bytes[top] < Pow2(fmt.nbits - CHAR_BITS * (N_DATA_BYTES(fmt) - 1))

\* a negative 13-bit value was packed big-endian into an aligned window:
\* two zero bytes, then the five value bits of the top data byte
C24_Witness ==
    /\ op = "pack" /\ pre = <<>> /\ endian = BIG
    /\ fmt = I13A /\ arg[ContainerBytes(fmt)] = 255
    /\ bytes[1] = 0 /\ bytes[2] = 0 /\ bytes[3] # 0 /\ bytes[3] < 32

(***************************************************************************)
(* Properties of the float codec: denormals, the carry, the decoded value  *)
(* and the errors.                                                         *)
(***************************************************************************)
\* the scaled fraction of the value last packed rounds up
ScaledRoundsUp ==
    \/ AboveHalf(ScaledFraction.rem)
    \/ ExactlyHalf(ScaledFraction.rem) /\ ScaledFraction.int[fmt.fbits] = 1

AllOnes(b) == \A j \in 1..Len(b) : b[j] = 1

\* C25: gradual underflow.  FloatIO::pack of a finite nonzero value with
\* (1 - bias) - F - 1 <= e' < 1 - bias does not throw and encodes a
\* denormal: exponent field 0, and as fraction field |value| * 2^(F - (1 -
\* bias)) rounded to nearest even, the leading 1 of f' being part of the
\* number that is rounded; when the rounding reaches 2^F the result is the
\* smallest normal, exponent field 1 and fraction field 0.
C25_GradualUnderflow ==
    (op = "fpack" /\ fval.cls = "fin"
        /\ fval.e >= (1 - (Pow2(fmt.ebits - 1) - 1)) - fmt.fbits - 1
        /\ fval.e < 1 - (Pow2(fmt.ebits - 1) - 1))
    => LET sc    == ScaledFraction
           shift == (1 - (Pow2(fmt.ebits - 1) - 1)) - fval.e
       IN  /\ thrown = "none"
           /\ shift <= fmt.fbits => sc.int[shift] = 1
           /\ \A j \in 1..(shift - 1) : j <= fmt.fbits => sc.int[j] = 0
           /\ ~ScaledRoundsUp
                => /\ ExponentField(fmt, arg) = 0
                   /\ FractionField(fmt, arg) = sc.int
           /\ (ScaledRoundsUp /\ ~AllOnes(sc.int))
                => /\ ExponentField(fmt, arg) = 0
                   /\ FractionField(fmt, arg) = Increment(sc.int)
           /\ (ScaledRoundsUp /\ AllOnes(sc.int))
                => /\ ExponentField(fmt, arg) = 1
                   /\ AllZero(FractionField(fmt, arg))

\* the largest value below the normal range rounded up to the smallest normal
C25_Witness ==
    /\ op = "fpack" /\ pre = <<>> /\ thrown = "none" /\ fval.cls = "fin"
    /\ fval.e = EXPONENT_MIN(fmt) - 1 /\ AllOnes(fval.fr)
    /\ fmt.fbits < FLOAT_T_FractionBits(fmt)
    /\ ExponentField(fmt, arg) = 1 /\ FractionZero /\ ~ExponentAllZeros

\* the exponent field pack has chosen for the value last packed when it
\* comes to round: e' + bias for a normal value, 0 for a denormal one
ExponentBeforeRounding ==
    IF fval.e >= 1 - (Pow2(fmt.ebits - 1) - 1)
    THEN fval.e + (Pow2(fmt.ebits - 1) - 1) ELSE 0

\* C26: rounding carry.  When the increment of the rounding makes the
\* numerator equal to fraction_denominator = 2^F (the truncated numerator
\* was 2^F - 1 and the remainder rounds up), the fraction field becomes 0
\* and the exponent field is one more than it was; when that incremented
\* exponent equals the all-ones exponent_mask, pack throws "too large".
C26_RoundingCarry ==
    (op = "fpack" /\ fval.cls = "fin"
        /\ fval.e <= Pow2(fmt.ebits - 1) - 1
        /\ fval.e >= (1 - (Pow2(fmt.ebits - 1) - 1)) - fmt.fbits - 1
        /\ ScaledRoundsUp /\ AllOnes(ScaledFraction.int))
    => IF ExponentBeforeRounding + 1 = Pow2(fmt.ebits) - 1
       THEN thrown = "too_large" /\ bytes = pre
       ELSE /\ thrown = "none"
            /\ AllZero(FractionField(fmt, arg))
            /\ ExponentField(fmt, arg) = ExponentBeforeRounding + 1

\* the largest FLOAT_T below 2^(bias + 1) carried into the all-ones exponent
C26_Witness ==
    /\ op = "fpack" /\ pre = <<>> /\ fval.cls = "fin" /\ fval.sign = 0
    /\ fval.e = EXPONENT_MAX(fmt) /\ AllOnes(fval.fr)
    /\ fmt.fbits < FLOAT_T_FractionBits(fmt)
    /\ thrown = "too_large" /\ bytes = <<>>

\* the exponent field of the window last unpacked, bits F..E+F-1
RECURSIVE WindowExponentFrom(_)
WindowExponentFrom(k) ==
    IF k >= fmt.ebits THEN 0
    ELSE WindowBit(fmt.fbits + k) * Pow2(k) + WindowExponentFrom(k + 1)

\* the fraction field of the window last unpacked, bits F-1..0, written out
\* to the fraction bits of FLOAT_T
WindowFraction ==
    [j \in 1..FLOAT_T_FractionBits(fmt) |->
        IF j <= fmt.fbits THEN WindowBit(fmt.fbits - j) ELSE 0]

\* m/2^F for a fraction field m that is not 0, as 1.fr * 2^(-q): q is the
\* place of the first one of m
FirstOne(m) == CHOOSE q \in 1..Len(m) : m[q] = 1 /\ \A j \in 1..(q - 1) : m[j] = 0

\* C27: decoded value.  For a pattern with sign s (bit E+F), exponent field
\* e (bits F..E+F-1) and fraction field m (bits 0..F-1), FloatIO::unpack
\* returns (-1)^s * 2^(e - bias) * (1 + m/2^F) when 0 < e < 2^E - 1 and
\* (-1)^s * 2^(1 - bias) * (m/2^F) when e = 0, with bias = 2^(E-1) - 1.
C27_DecodedValue ==
    (op = "funpack" /\ WindowExponentFrom(0) < Pow2(fmt.ebits) - 1)
    => LET s    == WindowBit(fmt.ebits + fmt.fbits)
           e    == WindowExponentFrom(0)
           m    == WindowFraction
           bias == Pow2(fmt.ebits - 1) - 1
       IN  /\ e > 0 => fval = [cls |-> "fin", sign |-> s, e |-> e - bias, fr |-> m]
           /\ (e = 0 /\ AllZero(m))
                => fval = [cls |-> "zero", sign |-> s, e |-> 0, fr |-> <<>>]
           /\ (e = 0 /\ ~AllZero(m))
                => fval = [cls |-> "fin", sign |-> s,
                           e |-> (1 - bias) - FirstOne(m),
                           fr |-> [j \in 1..Len(m) |->
                                     IF FirstOne(m) + j <= Len(m)
                                     THEN m[FirstOne(m) + j] ELSE 0]]

\* a negative denormal whose only set bit is the lowest of the fraction
\* field was decoded from a big-endian window: -2^(1 - bias - F)
C27_Witness ==
    /\ op = "funpack" /\ endian = BIG /\ fval.cls = "fin" /\ fval.sign = 1
    /\ WindowExponentAllZeros /\ WindowBit(0) = 1
    /\ \A k \in 1..(fmt.fbits - 1) : WindowBit(k) = 0
    /\ fval.e = 1 - EXPONENT_BIAS(fmt) - fmt.fbits /\ AllZero(fval.fr)

\* 2^value_bits - 1 as a value of the container
AllValueBits(f) == [j \in 1..ContainerBytes(f) |-> ExtendByte([k \in 1..8 |-> 255], f.nbits, 0, j)]

\* C28: the value mask.  For every 1 <= value_bits <= container_bits and
\* every container width up to 64 bits the mask pack and unpack use is
\* 2^value_bits - 1 as a container-width quantity (all ones for a full
\* container), so pack stores every one of the low value_bits bits of the
\* value, those above bit 31 included.
C28_ValueMask ==
    (phase = "ready" /\ fmt.nbits >= 1 /\ fmt.nbits <= fmt.cbits)
    => /\ VALUE_MASK(fmt) = AllValueBits(fmt)
       /\ hpp_VALUE_MASK(fmt) = AllValueBits(fmt)
       /\ (op = "pack" /\ pre = <<>>)
            => \A k \in 0..(N_DATA_BYTES(fmt) - 1) :
                 bytes[DataPos(fmt, endian, k)] = LowBits(fmt, arg)[k + 1]

\* C29: unpack reads only its own window.  For every format, byte order
\* and offset, the indices IntIO::unpack reads (the data bytes and the byte
\* that holds the sign bit) lie in [offset, offset + N_IO_BYTES), so on a
\* vector of at least offset + N_IO_BYTES bytes it reads no element outside
\* the vector.
C29_ReadsInWindow ==
    op = "unpack"
    => \A j \in ReadIndices(fmt, sysLittle, endian, roff) :
         /\ roff <= j /\ j < roff + N_IO_BYTES(fmt)
         /\ j < Len(pre)

\* C30: the errors of pack.  For every finite nonzero input the only error
\* FloatIO::pack can raise is the magnitude-overflow error ("too large"):
\* the frexp range error and the "invalid or unsupported scenario" error are
\* raised for no input; for infinities, NaN and zeros it raises none.
C30_OnlyOverflowError ==
    op \in {"fpack", "write"}
    => /\ thrown \in {"none", "too_large"}
       /\ fval.cls \in {"inf", "nan", "zero"} => thrown = "none"
       /\ fval.cls = "fin"
            => (thrown = "too_large"
                  <=> \/ fval.e > Pow2(fmt.ebits - 1) - 1
                      \/ /\ fval.e = Pow2(fmt.ebits - 1) - 1
                         /\ ScaledRoundsUp /\ AllOnes(ScaledFraction.int))

\* the value 1.0 was packed: exponent 0 after the normalization, and no
\* fraction bit after the leading 1
C30_Witness ==
    /\ op = "fpack" /\ pre = <<>> /\ thrown = "none"
    /\ fval.cls = "fin" /\ fval.e = 0 /\ AllZero(fval.fr)
    /\ FractionZero /\ PackedBit(fmt.fbits + fmt.ebits - 1) = 0
    /\ \A k \in fmt.fbits..(fmt.fbits + fmt.ebits - 2) : PackedBit(k) = 1

(***************************************************************************)
(* Properties of concurrent callers.                                       *)
(***************************************************************************)
\* C21: concurrent callers on distinct buffers need no synchronization.  In
\* every interleaving of the statements of two pack calls, or of a pack and
\* an unpack call, that work on different byte vectors, each vector after a
\* call and each value returned is what the call gives when it runs alone:
\* pack's vector is the function of the value and of the vector it was
\* given, unpack's value the function of its vector and offset, and unpack
\* leaves its vector as it was.
C21_DistinctBuffers ==
    \A t \in Threads :
        /\ (calls[t].pc = "idle" /\ calls[t].last = "pack")
             => calls[t].buf = pack(fmt, sysLittle, endian, calls[t].arg, calls[t].start)
        /\ (calls[t].pc = "idle" /\ calls[t].last = "unpack")
             => /\ calls[t].ret = unpack(fmt, sysLittle, endian, calls[t].start, calls[t].at)
                /\ calls[t].buf = calls[t].start

\* thread 1 returned from unpack and thread 2 from pack, each after
\* statements it executed while the other was inside its call
C21_Witness ==
    /\ calls[1].pc = "idle" /\ calls[1].last = "unpack" /\ calls[1].over
    /\ calls[2].pc = "idle" /\ calls[2].last = "pack" /\ calls[2].over
    /\ calls[2].buf # calls[1].buf
    /\ endian = BIG /\ fmt = I13A

\* both threads returned from pack, each after statements it executed
\* while the other was inside its call
C21_WitnessPacks ==
    /\ \A t \in Threads :
          calls[t].pc = "idle" /\ calls[t].last = "pack" /\ calls[t].over
    /\ calls[2].buf # calls[1].buf

====
